---- MODULE Spec2Model ----
(***************************************************************************)
(* Model of memory_consumption/plot_memory_consumption.py: the script      *)
(* reads four sample files into the module-level lists xs and ys and hands *)
(* them to matplotlib.pyplot (plot x4, legend, yticks, show).              *)
(*                                                                         *)
(* Text is modelled at character level: a file is a sequence of one-char   *)
(* strings, readlines/split/int/float are computed from the characters.    *)
(* A float is the exact decimal value [m, e] = m / 10^e in lowest form.    *)
(***************************************************************************)
EXTENDS Integers, Sequences, FiniteSets, TLC

\* Longest file the environment supplies, in lines.
MaxLines == 2

\* Most lines the four files hold together.
MaxTotalLines == 5

VARIABLES
    xs,          \* module global xs: list of lists of int
    ys,          \* module global ys: list of lists of float
    pc,          \* position of the script
    name,        \* number of names the for loop of line 17 has taken
    files,       \* name and text of each file opened so far, in call order
    lines,       \* f.readlines() of the running call
    li,          \* lines of the running call already iterated
    handles,     \* file objects that are open (by call number)
    refcounting, \* the interpreter finalises f as soon as the frame dies
    calls,       \* calls made on plt, in order
    err          \* the uncaught exception, "none" while there is none

vars == <<xs, ys, pc, name, files, lines, li, handles, refcounting, calls, err>>

----------------------------------------------------------------------------
\* Characters and the lines the sample files are made of.

Digits == {"0", "1", "2", "3", "5", "9"}

Whitespace == {" ", "\n"}

DigitVal(c) ==
    CASE c = "0" -> 0 [] c = "1" -> 1 [] c = "2" -> 2
      [] c = "3" -> 3 [] c = "5" -> 5 [] c = "9" -> 9

\* Line bodies (without the line end) a sample file may contain.
LineBodies ==
    { <<"1", " ", "2", ".", "5">>,                 \* 1 2.5
      <<"0", "2", " ", " ", "9", ".", "5", "0">>,  \* 02  9.50
      <<>>,                                        \* empty line
      <<"1">>,                                     \* one token
      <<"1", " ", "2", " ", "3">>,                 \* three tokens
      <<"a", " ", "1">>,                           \* x not an integer
      <<"1", " ", "a">> }                          \* y not a number

RECURSIVE Join(_)
Join(ls) ==
    IF ls = <<>> THEN <<>> ELSE Head(ls) \o <<"\n">> \o Join(Tail(ls))

\* The texts a sample file of n lines may hold, as lists of line bodies.
LineLists(n) == [1..n -> LineBodies]

----------------------------------------------------------------------------
\* The library functions the script calls, computed from the characters.

\* f.readlines(): the text cut after every line end, line ends kept.
\* (from: first character of the line being read, i: next character.)
RECURSIVE readlinesFrom(_, _, _)
readlinesFrom(s, from, i) ==
    IF i > Len(s) THEN (IF from > Len(s) THEN <<>> ELSE <<SubSeq(s, from, Len(s))>>)
    ELSE IF s[i] = "\n"
         THEN <<SubSeq(s, from, i)>> \o readlinesFrom(s, i + 1, i + 1)
         ELSE readlinesFrom(s, from, i + 1)

readlines(text) == readlinesFrom(text, 1, 1)

\* line.split(): the maximal runs of non-whitespace characters.
\* (from: first character of the token being read, 0 between tokens.)
RECURSIVE splitFrom(_, _, _)
splitFrom(s, from, i) ==
    IF i > Len(s) THEN (IF from = 0 THEN <<>> ELSE <<SubSeq(s, from, Len(s))>>)
    ELSE IF s[i] \in Whitespace
         THEN IF from = 0 THEN splitFrom(s, 0, i + 1)
              ELSE <<SubSeq(s, from, i - 1)>> \o splitFrom(s, 0, i + 1)
         ELSE splitFrom(s, IF from = 0 THEN i ELSE from, i + 1)

split(line) == splitFrom(line, 0, 1)

AllDigits(s) == \A i \in 1..Len(s) : s[i] \in Digits

RECURSIVE DigitsVal(_)
DigitsVal(s) ==
    IF s = <<>> THEN 0
    ELSE 10 * DigitsVal(SubSeq(s, 1, Len(s) - 1)) + DigitVal(s[Len(s)])

HasSign(tok) == tok # <<>> /\ Head(tok) \in {"+", "-"}
Unsigned(tok) == IF HasSign(tok) THEN Tail(tok) ELSE tok
Sign(tok) == IF tok # <<>> /\ Head(tok) = "-" THEN -1 ELSE 1

\* int(x) accepts an optional sign, then one or more decimal digits.
IsIntLiteral(tok) == Unsigned(tok) # <<>> /\ AllDigits(Unsigned(tok))

\* The value of int(tok); int raises ValueError unless IsIntLiteral(tok).
py_int(tok) == Sign(tok) * DigitsVal(Unsigned(tok))

\* Position of the decimal point in s, 0 when there is none.
PointAt(s) ==
    IF \E i \in 1..Len(s) : s[i] = "."
    THEN CHOOSE i \in 1..Len(s) : s[i] = "." /\ \A j \in 1..(i - 1) : s[j] # "."
    ELSE 0

IntPart(s) == IF PointAt(s) = 0 THEN s ELSE SubSeq(s, 1, PointAt(s) - 1)
FracPart(s) == IF PointAt(s) = 0 THEN <<>> ELSE SubSeq(s, PointAt(s) + 1, Len(s))

\* float(y) accepts an optional sign, then digits with at most one decimal
\* point and at least one digit.
IsFloatLiteral(tok) ==
    /\ \A i \in 1..Len(Unsigned(tok)) : Unsigned(tok)[i] \in Digits \cup {"."}
    /\ \E i \in 1..Len(Unsigned(tok)) : Unsigned(tok)[i] \in Digits
    /\ Cardinality({i \in 1..Len(Unsigned(tok)) : Unsigned(tok)[i] = "."}) <= 1

\* m / 10^e in lowest form: 2.50 and 2.5 are the same float.
RECURSIVE Normal(_, _)
Normal(m, e) ==
    IF e > 0 /\ m % 10 = 0 THEN Normal(m \div 10, e - 1) ELSE [m |-> m, e |-> e]

\* The value of float(tok); float raises ValueError unless IsFloatLiteral(tok).
py_float(tok) ==
    LET u == Unsigned(tok)
    IN  Normal(Sign(tok) * DigitsVal(IntPart(u) \o FracPart(u)), Len(FracPart(u)))

\* range(n) started at 1 instead of 0.
range_FromOne(n) == [i \in 1..n |-> i]

\* range(n) as a list.
range(n) == [i \in 1..n |-> i - 1]

\* seq[0].append(v): the first list instead of the last.
AppendToFirst(seq, v) == [seq EXCEPT ![1] = Append(@, v)]

\* seq[-1].append(v) on a list of lists.
AppendToLast(seq, v) == [seq EXCEPT ![Len(seq)] = Append(@, v)]

----------------------------------------------------------------------------
\* The script.

\* The list the for loop of line 17 iterates.
Names == <<"LongLongHashMapMemory", "HashMapMemory", "HashtableMemory", "TreeMapMemory">>

\* The plot statements with the series of HashMap and Hashtable exchanged.
PlotStmts_Swapped ==
    << [idx |-> 0, label |-> "LongLongMap"],
       [idx |-> 2, label |-> "HashMap"],
       [idx |-> 1, label |-> "Hashtable"],
       [idx |-> 3, label |-> "TreeMap"] >>

\* The plot statements of lines 21-24: which series, under which label.
PlotStmts ==
    << [idx |-> 0, label |-> "LongLongMap"],
       [idx |-> 1, label |-> "HashMap"],
       [idx |-> 2, label |-> "Hashtable"],
       [idx |-> 3, label |-> "TreeMap"] >>

\* The argument of range() in line 26.
YTicksStop == 8

PlotCall(x, y, label) == [fn |-> "plot", x |-> x, y |-> y, label |-> label, ticks |-> <<>>]
LegendCall == [fn |-> "legend", x |-> <<>>, y |-> <<>>, label |-> "", ticks |-> <<>>]
YTicksCall(t) == [fn |-> "yticks", x |-> <<>>, y |-> <<>>, label |-> "", ticks |-> t]
ShowCall == [fn |-> "show", x |-> <<>>, y |-> <<>>, label |-> "", ticks |-> <<>>]

Init ==
    /\ xs = <<>>
    /\ ys = <<>>
    /\ pc = "for_name"
    /\ name = 0
    /\ files = <<>>
    /\ lines = <<>>
    /\ li = 0
    /\ handles = {}
    /\ refcounting \in BOOLEAN
    /\ calls = <<>>
    /\ err = "none"

Min(a, b) == IF a < b THEN a ELSE b

\* Lines held by the files opened so far.
RECURSIVE TotalLines(_)
TotalLines(fs) ==
    IF fs = <<>> THEN 0 ELSE Len(readlines(Head(fs).text)) + TotalLines(Tail(fs))

\* An exception that is recorded while the loop over the names goes on.
Raise_Swallowed(e) ==
    /\ err' = e
    /\ pc' = "for_name"

\* An exception nobody catches: the script stops where it is.
Raise(e) ==
    /\ err' = e
    /\ pc' = "aborted"

\* An unpacking that takes the first two tokens and drops the rest.
Unpacks_AtLeastTwo(toks) == Len(toks) >= 2

\* x , y = line.split() (line 12) unpacks exactly two tokens, else ValueError.
Unpacks(toks) == Len(toks) = 2

\* Line 17-18 calls read_memory_consuption(name) and line 8 cannot open the file.
OpenFails ==
    /\ pc = "for_name"
    /\ name < Len(Names)
    /\ name' = name + 1
    /\ Raise("OSError")
    /\ UNCHANGED <<xs, ys, files, lines, li, handles, refcounting, calls>>

\* Line 17-18 calls read_memory_consuption(name); lines 8-11 open the file,
\* append a new empty series to xs and to ys, and read all the lines.
OpenReads ==
    /\ pc = "for_name"
    /\ name < Len(Names)
    /\ \E n \in 0..Min(MaxLines, MaxTotalLines - TotalLines(files)) :
         \E ls \in LineLists(n) :
            LET text == Join(ls)
            IN  /\ files' = Append(files, [name |-> Names[name + 1], text |-> text])
                /\ lines' = readlines(text)
    /\ name' = name + 1
    /\ handles' = handles \cup {name + 1}
    /\ xs' = Append(xs, <<>>)
    /\ ys' = Append(ys, <<>>)
    /\ li' = 0
    /\ pc' = "for_line"
    /\ UNCHANGED <<refcounting, calls, err>>

\* Lines 11-14, one iteration of the loop over the lines.
ForLine ==
    /\ pc = "for_line"
    /\ li < Len(lines)
    /\ li' = li + 1
    /\ LET toks == split(lines[li + 1])
       IN  IF ~Unpacks(toks)
           THEN /\ Raise("ValueError")
                /\ UNCHANGED <<xs, ys>>
           ELSE IF ~IsIntLiteral(toks[1])
           THEN /\ Raise("ValueError")
                /\ UNCHANGED <<xs, ys>>
           ELSE IF ~IsFloatLiteral(toks[2])
           THEN /\ xs' = AppendToLast(xs, py_int(toks[1]))
                /\ Raise("ValueError")
                /\ UNCHANGED ys
           ELSE /\ xs' = AppendToLast(xs, py_int(toks[1]))
                /\ ys' = AppendToLast(ys, py_float(toks[2]))
                /\ UNCHANGED <<pc, err>>
    /\ UNCHANGED <<name, files, lines, handles, refcounting, calls>>

\* The loop of line 11 is exhausted and read_memory_consuption returns. The
\* function never closes f: the file object is closed when the interpreter
\* finalises it, which a reference-counting interpreter does as the frame
\* dies and any other one does at some later time. (After an exception the
\* traceback keeps the frame, and f with it, alive.)
Return ==
    /\ pc = "for_line"
    /\ li = Len(lines)
    /\ handles' = IF refcounting THEN handles \ {name} ELSE handles
    /\ pc' = "for_name"
    /\ UNCHANGED <<xs, ys, name, files, lines, li, refcounting, calls, err>>

\* Lines 21-24: the next plt.plot(xs[i], ys[i], label=...).
Plot ==
    /\ \/ pc = "for_name" /\ name = Len(Names)
       \/ pc = "plot"
    /\ LET st == PlotStmts[Len(calls) + 1]
       IN  IF st.idx < Len(xs) /\ st.idx < Len(ys)
           THEN /\ calls' = Append(calls, PlotCall(xs[st.idx + 1], ys[st.idx + 1], st.label))
                /\ pc' = IF Len(calls) + 1 < Len(PlotStmts) THEN "plot" ELSE "legend"
                /\ UNCHANGED err
           ELSE /\ Raise("IndexError")
                /\ UNCHANGED calls
    /\ UNCHANGED <<xs, ys, name, files, lines, li, handles, refcounting>>

\* Line 25: plt.legend().
Legend ==
    /\ pc = "legend"
    /\ calls' = Append(calls, LegendCall)
    /\ pc' = "yticks"
    /\ UNCHANGED <<xs, ys, name, files, lines, li, handles, refcounting, err>>

\* Line 26: plt.yticks(range(8)).
YTicks ==
    /\ pc = "yticks"
    /\ calls' = Append(calls, YTicksCall(range(YTicksStop)))
    /\ pc' = "show"
    /\ UNCHANGED <<xs, ys, name, files, lines, li, handles, refcounting, err>>

\* Line 27: plt.show().
Show ==
    /\ pc = "show"
    /\ calls' = Append(calls, ShowCall)
    /\ pc' = "done"
    /\ UNCHANGED <<xs, ys, name, files, lines, li, handles, refcounting, err>>

Next ==
    \/ OpenFails
    \/ OpenReads
    \/ ForLine
    \/ Return
    \/ Plot
    \/ Legend
    \/ YTicks
    \/ Show

Spec == Init /\ [][Next]_vars

----------------------------------------------------------------------------
\* What the sample files say, read off the text of a file as a whole.

IsEmptyLine(l) == l \in {<<>>, <<"\n">>}

RECURSIVE NonEmpty(_)
NonEmpty(ls) ==
    IF ls = <<>> THEN <<>>
    ELSE IF IsEmptyLine(Head(ls)) THEN NonEmpty(Tail(ls))
    ELSE <<Head(ls)>> \o NonEmpty(Tail(ls))

NonEmptyLines(text) == NonEmpty(readlines(text))

WellFormedLine(l) ==
    LET toks == split(l)
    IN  Len(toks) = 2 /\ IsIntLiteral(toks[1]) /\ IsFloatLiteral(toks[2])

\* Every non-empty line is <integer><whitespace><float>.
WellFormed(text) ==
    \A i \in 1..Len(NonEmptyLines(text)) : WellFormedLine(NonEmptyLines(text)[i])

\* One token, three or more tokens, a first token that is no integer or a
\* second token that is no number.
MalformedTokens(toks) ==
    \/ Len(toks) = 1
    \/ Len(toks) >= 3
    \/ Len(toks) >= 1 /\ ~IsIntLiteral(toks[1])
    \/ Len(toks) >= 2 /\ ~IsFloatLiteral(toks[2])

MalformedLine(l) == MalformedTokens(split(l))

RECURSIVE AnyMalformed(_)
AnyMalformed(ls) ==
    IF ls = <<>> THEN FALSE ELSE MalformedLine(Head(ls)) \/ AnyMalformed(Tail(ls))

HasMalformedLine(text) == AnyMalformed(readlines(text))

ExpectedXs(text) ==
    [i \in 1..Len(NonEmptyLines(text)) |-> py_int(split(NonEmptyLines(text)[i])[1])]

ExpectedYs(text) ==
    [i \in 1..Len(NonEmptyLines(text)) |-> py_float(split(NonEmptyLines(text)[i])[2])]

\* The call that opened files[i] has left read_memory_consuption.
LoadExited(i) == i < Len(files) \/ (i = Len(files) /\ pc # "for_line")

\* The call that opened files[i] raised.
LoadAborted(i) == i = Len(files) /\ pc = "aborted" /\ err = "ValueError"

LoadReturned(i) == LoadExited(i) /\ ~LoadAborted(i)

Shown == \E c \in 1..Len(calls) : calls[c].fn = "show"

----------------------------------------------------------------------------
\* Claims.

\* C1: for every well-formed file, empty lines between or after the data
\* lines included, the call returns and its series is the parsed (x, y) of
\* the non-empty lines, in file order.
C1_SeriesOfNonEmptyLines ==
    \A i \in 1..Len(files) :
        LoadExited(i) /\ WellFormed(files[i].text) =>
            /\ LoadReturned(i)
            /\ xs[i] = ExpectedXs(files[i].text)
            /\ ys[i] = ExpectedYs(files[i].text)

\* C2: a call never returns normally for a file that has a line of one
\* token, of three or more tokens, with a first token that is no integer or
\* with a second token that is no number: it raises ValueError.
C2_MalformedLineRaises ==
    \A i \in 1..Len(files) :
        LoadExited(i) /\ HasMalformedLine(files[i].text) => LoadAborted(i)

\* A call aborted on its second line, a line of three tokens, after a first
\* line that parsed.
C2_Witness ==
    /\ pc = "aborted"
    /\ err = "ValueError"
    /\ li = 2
    /\ Len(split(lines[2])) >= 3
    /\ Len(xs[Len(xs)]) = 1
    /\ HasMalformedLine(files[Len(files)].text)

\* C3: once a load fails the run has stopped: nothing was called on plt, no
\* further step is taken (no later file is opened, nothing is plotted); and
\* plt is called only after all four loads returned.
C3_Stopped ==
    /\ err # "none" => pc = "aborted" /\ calls = <<>>
    /\ calls # <<>> =>
        /\ err = "none"
        /\ Len(files) = Len(Names)
        /\ \A i \in 1..Len(files) : LoadReturned(i)

C3_FailFast == []C3_Stopped /\ [][err = "none"]_vars

\* The second file failed to parse: two files opened, nothing drawn.
C3_Witness ==
    /\ pc = "aborted"
    /\ err = "ValueError"
    /\ name = 2
    /\ Len(files) = 2
    /\ calls = <<>>

\* C4: when one of the files has zero lines no chart is displayed.
C4_EmptySeriesNotShown ==
    (\E i \in 1..Len(files) : readlines(files[i].text) = <<>>) => ~Shown

\* C5: whenever no call is running (it returned or it aborted) xs and ys have
\* the same length and so have xs[i] and ys[i] for every i.
C5_SameCounts ==
    pc # "for_line" =>
        /\ Len(xs) = Len(ys)
        /\ \A i \in 1..Len(xs) : Len(xs[i]) = Len(ys[i])

\* C6: at most one file is open at any time, and none is open once a call
\* has returned or aborted.
C6_HandlesScoped ==
    /\ Cardinality(handles) <= 1
    /\ pc # "for_line" => handles = {}

\* The label each source file is plotted under.
FixedLabel ==
    [n \in {"LongLongHashMapMemory", "HashMapMemory", "HashtableMemory", "TreeMapMemory"} |->
        CASE n = "LongLongHashMapMemory" -> "LongLongMap"
          [] n = "HashMapMemory" -> "HashMap"
          [] n = "HashtableMemory" -> "Hashtable"
          [] n = "TreeMapMemory" -> "TreeMap"]

PlotCalls == {c \in 1..Len(calls) : calls[c].fn = "plot"}

\* C7: when the chart is shown exactly four series were plotted, one per
\* source file, each with the data of that file under the label of that file.
C7_EachFileUnderItsLabel ==
    Shown =>
        /\ Cardinality(PlotCalls) = 4
        /\ Len(files) = 4
        /\ \A n \in DOMAIN FixedLabel :
            \E i \in 1..Len(files) :
                /\ files[i].name = n
                /\ Cardinality({c \in PlotCalls : calls[c].label = FixedLabel[n]}) = 1
                /\ \A c \in PlotCalls :
                    calls[c].label = FixedLabel[n] =>
                        /\ calls[c].x = ExpectedXs(files[i].text)
                        /\ calls[c].y = ExpectedYs(files[i].text)

\* A chart of four pairwise different series, one of them of two points.
C7_Witness ==
    /\ pc = "done"
    /\ \A c, d \in PlotCalls : c # d => calls[c].x # calls[d].x
    /\ \E c \in PlotCalls : Len(calls[c].x) = 2

\* C9: the y ticks are set once, to 0..7 whatever the data, after the four
\* plot calls and before show.
C9_YTicksFixed ==
    /\ \A c \in 1..Len(calls) :
        calls[c].fn = "yticks" =>
            /\ calls[c].ticks = <<0, 1, 2, 3, 4, 5, 6, 7>>
            /\ Cardinality({d \in PlotCalls : d < c}) = 4
            /\ \A d \in 1..(c - 1) : calls[d].fn \notin {"yticks", "show"}
    /\ \A c \in 1..Len(calls) :
        calls[c].fn = "show" => \E d \in 1..(c - 1) : calls[d].fn = "yticks"

\* A chart shown with a y value of 9.5, outside 0..7.
C9_Witness ==
    /\ pc = "done"
    /\ \E c \in PlotCalls : \E j \in 1..Len(calls[c].y) : calls[c].y[j] = [m |-> 95, e |-> 1]

\* C10: a step of a call changes no series but the last one; a call whose
\* file opens appends one empty series to xs and one to ys; a call whose file
\* cannot be opened leaves xs and ys as they are.
C10_Step ==
    /\ Len(xs') \in {Len(xs), Len(xs) + 1}
    /\ Len(ys') \in {Len(ys), Len(ys) + 1}
    /\ \A i \in 1..Len(xs) : i < Len(xs') => xs'[i] = xs[i]
    /\ \A i \in 1..Len(ys) : i < Len(ys') => ys'[i] = ys[i]
    /\ Len(files') = Len(files) + 1 <=> Len(xs') = Len(xs) + 1
    /\ Len(files') = Len(files) + 1 <=> Len(ys') = Len(ys) + 1
    /\ Len(xs') = Len(xs) + 1 => xs'[Len(xs')] = <<>>
    /\ Len(ys') = Len(ys) + 1 => ys'[Len(ys')] = <<>>
    /\ Len(xs') = Len(xs) /\ xs' # xs =>
        SubSeq(xs'[Len(xs)], 1, Len(xs'[Len(xs)]) - 1) = xs[Len(xs)]
    /\ Len(ys') = Len(ys) /\ ys' # ys =>
        SubSeq(ys'[Len(ys)], 1, Len(ys'[Len(ys)]) - 1) = ys[Len(ys)]
    /\ err = "none" /\ err' = "OSError" => xs' = xs /\ ys' = ys

\* After k calls that returned, xs and ys hold k series, the i-th being the
\* data of the i-th file.
C10_AfterLoads ==
    pc = "for_name" =>
        /\ Len(xs) = name
        /\ Len(ys) = name
        /\ Len(files) = name
        /\ \A i \in 1..name :
            /\ xs[i] = ExpectedXs(files[i].text)
            /\ ys[i] = ExpectedYs(files[i].text)

C10_OnlyLastSeries == []C10_AfterLoads /\ [][C10_Step]_vars

\* The third call has read two lines while the first two series hold data.
C10_Witness ==
    /\ pc = "for_line"
    /\ name = 3
    /\ li = 2
    /\ Len(xs[3]) = 2
    /\ xs[1] # <<>>
    /\ xs[2] # <<>>

====
